---- MODULE Spec2Model ----
(***************************************************************************)
(* The ATM state machine of final-project/state-machine-atm/src/atm.rs.    *)
(* A driver holds one Atm snapshot and repeatedly calls                    *)
(*     next_state(starting_state, t) -> atm                                *)
(* feeding the returned snapshot back into the next call.                  *)
(***************************************************************************)
EXTENDS Integers, Sequences, FiniteSets, TLC

(***************************************************************************)
(* Bounds of the model.                                                    *)
(***************************************************************************)
MaxRegister == 3      \* digit keys are pressed only while the register is shorter
MaxInitLen == 2       \* arbitrary input registers (any key) have at most this length
MaxScenario == 2      \* pins and amounts of the end-to-end scenarios have at most this length
MaxDigits == 20       \* longest input register made of one repeated digit
LongSpan == 2         \* repeated-digit input registers have MaxDigits-LongSpan..MaxDigits keys

(***************************************************************************)
(* enum Key, and the digit keys among them.                                *)
(***************************************************************************)
Key == {"One", "Two", "Three", "Four", "Enter"}

Digits == Key \ {"Enter"}

(***************************************************************************)
(* enum Auth.                                                              *)
(***************************************************************************)
Waiting == [tag |-> "Waiting"]

Authenticating(h) == [tag |-> "Authenticating", hash |-> h]

Authenticated == [tag |-> "Authenticated"]

\* impl Default for Auth
AuthDefault == Waiting

(***************************************************************************)
(* enum Action.                                                            *)
(***************************************************************************)
SwipeCardAction(h) == [kind |-> "SwipeCard", value |-> h]

PressKeyAction(k) == [kind |-> "PressKey", value |-> k]

NoAction == [kind |-> "None"]

(***************************************************************************)
(* u64 arithmetic.  A u64 is four 16-bit limbs, least significant first.   *)
(* Each operation returns the wrapped 64-bit result and whether the exact  *)
(* result left the 64-bit range.                                           *)
(***************************************************************************)
LimbBase == 65536

u64(n) == <<n % LimbBase, (n \div LimbBase) % LimbBase, 0, 0>>

u64_mul(x, m) ==
    LET p1 == x[1] * m
        p2 == x[2] * m + (p1 \div LimbBase)
        p3 == x[3] * m + (p2 \div LimbBase)
        p4 == x[4] * m + (p3 \div LimbBase)
    IN  [val |-> <<p1 % LimbBase, p2 % LimbBase, p3 % LimbBase, p4 % LimbBase>>,
         overflow |-> (p4 \div LimbBase) # 0]

u64_add(x, y) ==
    LET s1 == x[1] + y[1]
        s2 == x[2] + y[2] + (s1 \div LimbBase)
        s3 == x[3] + y[3] + (s2 \div LimbBase)
        s4 == x[4] + y[4] + (s3 \div LimbBase)
    IN  [val |-> <<s1 % LimbBase, s2 % LimbBase, s3 % LimbBase, s4 % LimbBase>>,
         overflow |-> (s4 \div LimbBase) # 0]

\* x >= y
u64_ge(x, y) ==
    IF x[4] # y[4] THEN x[4] > y[4]
    ELSE IF x[3] # y[3] THEN x[3] > y[3]
    ELSE IF x[2] # y[2] THEN x[2] > y[2]
    ELSE x[1] >= y[1]

\* x - y, used only under x >= y
u64_sub(x, y) ==
    LET d1 == x[1] - y[1]
        b1 == IF d1 < 0 THEN 1 ELSE 0
        d2 == x[2] - y[2] - b1
        b2 == IF d2 < 0 THEN 1 ELSE 0
        d3 == x[3] - y[3] - b2
        b3 == IF d3 < 0 THEN 1 ELSE 0
        d4 == x[4] - y[4] - b3
    IN  <<d1 % LimbBase, d2 % LimbBase, d3 % LimbBase, d4 % LimbBase>>

(***************************************************************************)
(* crate::traits::hash: a deterministic digest of a key sequence.          *)
(***************************************************************************)
HashModulus == 1000003

KeyDiscriminant(k) ==
    CASE k = "One" -> 1
      [] k = "Two" -> 2
      [] k = "Three" -> 3
      [] k = "Four" -> 4
      [] k = "Enter" -> 5

RECURSIVE hash_fold(_, _, _)
hash_fold(keys, i, h) ==
    IF i > Len(keys) THEN h
    ELSE hash_fold(keys, i + 1, (h * 7 + KeyDiscriminant(keys[i])) % HashModulus)

hash(keys) == hash_fold(keys, 1, Len(keys))

(***************************************************************************)
(* State.                                                                  *)
(***************************************************************************)
VARIABLES
    starting_state,   \* the snapshot passed to the last call of next_state
    t,                \* the transition passed to the last call of next_state
    atm,              \* the snapshot the driver holds (result of the last call)
    stdout,           \* what the last call printed
    panicked,         \* the last call panicked instead of returning
    overflow_checks,  \* build profile: arithmetic overflow panics (debug) or wraps (release)
    session           \* history: what the user has done since the phase was last Waiting

vars == <<starting_state, t, atm, stdout, panicked, overflow_checks, session>>

(***************************************************************************)
(* impl From<Key> for u64                                                  *)
(***************************************************************************)
KeyIntoU64(value) ==
    CASE value = "One" -> 1
      [] value = "Two" -> 2
      [] value = "Three" -> 3
      [] value = "Four" -> 4
      [] value = "Enter" -> 5
      [] OTHER -> 0

(***************************************************************************)
(* fn keys_into_u64: the loop over keys.iter().rev(); i is the index of    *)
(* the key the iteration reads.  The result carries the wrapped 64-bit     *)
(* value and whether `value += unit * v` or `unit *= 10` overflowed in     *)
(* some iteration: the call then panics when overflow checks are on and    *)
(* returns the wrapped value otherwise.                                    *)
(***************************************************************************)
\* mutant: the loop reads the keys front to back (first key least significant)
RECURSIVE keys_loop_forward(_, _, _, _, _)
keys_loop_forward(keys, i, unit, value, overflowed) ==
    IF i < 1 THEN [value |-> value, overflowed |-> overflowed]
    ELSE
        LET v == KeyIntoU64(keys[Len(keys) - i + 1])
            prod == u64_mul(unit, v)
            sum == u64_add(value, prod.val)
            next_unit == u64_mul(unit, 10)
        IN  keys_loop_forward(keys, i - 1, next_unit.val, sum.val,
                      overflowed \/ prod.overflow \/ sum.overflow \/ next_unit.overflow)

RECURSIVE keys_loop(_, _, _, _, _)
keys_loop(keys, i, unit, value, overflowed) ==
    IF i < 1 THEN [value |-> value, overflowed |-> overflowed]
    ELSE
        LET v == KeyIntoU64(keys[i])
            prod == u64_mul(unit, v)
            sum == u64_add(value, prod.val)
            next_unit == u64_mul(unit, 10)
        IN  keys_loop(keys, i - 1, next_unit.val, sum.val,
                      overflowed \/ prod.overflow \/ sum.overflow \/ next_unit.overflow)

keys_into_u64(keys) ==
    IF Len(keys) = 0 THEN [value |-> u64(0), overflowed |-> FALSE]
    ELSE keys_loop(keys, Len(keys), u64(1), u64(0), FALSE)

(***************************************************************************)
(* impl Atm.  Each method returns the Atm after the call, what the call    *)
(* printed, and whether it panicked.                                       *)
(***************************************************************************)
WrongState == "wrong authenticate state"

Returned(self, out) == [atm |-> self, stdout |-> out, panicked |-> FALSE]

Panic(self) == [atm |-> self, stdout |-> <<>>, panicked |-> TRUE]

\* mutant: a rejected swipe clears the register
swip_card_reject_clears(self, hash_pin) ==
    IF self.expected_pin_hash # Waiting
    THEN Returned([self EXCEPT !.keystroke_register = <<>>], <<WrongState>>)
    ELSE Returned([self EXCEPT !.expected_pin_hash = Authenticating(hash_pin)], <<>>)

\* mutant: a swipe always starts a new session
swip_card_overwrites(self, hash_pin) ==
    Returned([self EXCEPT !.expected_pin_hash = Authenticating(hash_pin)], <<>>)

\* mutant: an accepted swipe clears the register
swip_card_clears(self, hash_pin) ==
    IF self.expected_pin_hash # Waiting
    THEN Returned(self, <<WrongState>>)
    ELSE Returned([self EXCEPT !.expected_pin_hash = Authenticating(hash_pin),
                               !.keystroke_register = <<>>], <<>>)

swip_card(self, hash_pin) ==
    IF self.expected_pin_hash # Waiting
    THEN Returned(self, <<WrongState>>)
    ELSE Returned([self EXCEPT !.expected_pin_hash = Authenticating(hash_pin)], <<>>)

\* mutant: Enter leaves the typed keys in the register
pin_check_keeps_register(self, key) ==
    IF key = "Enter"
    THEN LET pin_hash == hash(self.keystroke_register)
         IN  IF Authenticating(pin_hash) = self.expected_pin_hash
             THEN Returned([self EXCEPT !.expected_pin_hash = Authenticated], <<>>)
             ELSE Returned([self EXCEPT !.expected_pin_hash = AuthDefault], <<>>)
    ELSE Returned([self EXCEPT !.keystroke_register = Append(@, key)], <<>>)

\* mutant: Enter authenticates whatever was typed
pin_check_unchecked(self, key) ==
    IF key = "Enter"
    THEN Returned([self EXCEPT !.expected_pin_hash = Authenticated,
                               !.keystroke_register = <<>>], <<>>)
    ELSE Returned([self EXCEPT !.keystroke_register = Append(@, key)], <<>>)

\* mutant: a digit is put in front of the register
pin_check_prepends(self, key) ==
    IF key = "Enter"
    THEN LET pin_hash == hash(self.keystroke_register)
         IN  IF Authenticating(pin_hash) = self.expected_pin_hash
             THEN Returned([self EXCEPT !.expected_pin_hash = Authenticated,
                                        !.keystroke_register = <<>>], <<>>)
             ELSE Returned([self EXCEPT !.keystroke_register = <<>>,
                                        !.expected_pin_hash = AuthDefault], <<>>)
    ELSE Returned([self EXCEPT !.keystroke_register = <<key>> \o @], <<>>)

\* mutant: a wrong pin leaves the session open
pin_check_stays(self, key) ==
    IF key = "Enter"
    THEN LET pin_hash == hash(self.keystroke_register)
         IN  IF Authenticating(pin_hash) = self.expected_pin_hash
             THEN Returned([self EXCEPT !.expected_pin_hash = Authenticated,
                                        !.keystroke_register = <<>>], <<>>)
             ELSE Returned([self EXCEPT !.keystroke_register = <<>>], <<>>)
    ELSE Returned([self EXCEPT !.keystroke_register = Append(@, key)], <<>>)

\* mutant: the digest is taken over the register with the Enter key in it
pin_check_hashes_enter(self, key) ==
    IF key = "Enter"
    THEN LET pin_hash == hash(Append(self.keystroke_register, key))
         IN  IF Authenticating(pin_hash) = self.expected_pin_hash
             THEN Returned([self EXCEPT !.expected_pin_hash = Authenticated,
                                        !.keystroke_register = <<>>], <<>>)
             ELSE Returned([self EXCEPT !.keystroke_register = <<>>,
                                        !.expected_pin_hash = AuthDefault], <<>>)
    ELSE Returned([self EXCEPT !.keystroke_register = Append(@, key)], <<>>)

pin_check(self, key) ==
    IF key = "Enter"
    THEN LET pin_hash == hash(self.keystroke_register)
         IN  IF Authenticating(pin_hash) = self.expected_pin_hash
             THEN Returned([self EXCEPT !.expected_pin_hash = Authenticated,
                                        !.keystroke_register = <<>>], <<>>)
             ELSE Returned([self EXCEPT !.keystroke_register = <<>>,
                                        !.expected_pin_hash = AuthDefault], <<>>)
    ELSE Returned([self EXCEPT !.keystroke_register = Append(@, key)], <<>>)

\* mutant: the session stays open after a withdrawal
withdraw_stays(self, key) ==
    IF key = "Enter"
    THEN LET with_draw_value == keys_into_u64(self.keystroke_register)
         IN  IF overflow_checks /\ with_draw_value.overflowed THEN Panic(self)
             ELSE Returned(
                    [cash_inside |->
                        IF u64_ge(self.cash_inside, with_draw_value.value)
                        THEN u64_sub(self.cash_inside, with_draw_value.value)
                        ELSE self.cash_inside,
                     expected_pin_hash |-> self.expected_pin_hash,
                     keystroke_register |-> <<>>], <<>>)
    ELSE Returned([self EXCEPT !.keystroke_register = Append(@, key)], <<>>)

\* mutant: the amount is added to the cash inside
withdraw_adds(self, key) ==
    IF key = "Enter"
    THEN LET with_draw_value == keys_into_u64(self.keystroke_register)
         IN  IF overflow_checks /\ with_draw_value.overflowed THEN Panic(self)
             ELSE Returned(
                    [cash_inside |->
                        IF u64_ge(self.cash_inside, with_draw_value.value)
                        THEN u64_add(self.cash_inside, with_draw_value.value).val
                        ELSE self.cash_inside,
                     expected_pin_hash |-> AuthDefault,
                     keystroke_register |-> <<>>], <<>>)
    ELSE Returned([self EXCEPT !.keystroke_register = Append(@, key)], <<>>)

\* mutant: the withdrawal does not compare the amount with the cash inside
withdraw_unchecked(self, key) ==
    IF key = "Enter"
    THEN LET with_draw_value == keys_into_u64(self.keystroke_register)
         IN  IF overflow_checks /\ with_draw_value.overflowed THEN Panic(self)
             ELSE Returned(
                    [cash_inside |-> u64_sub(self.cash_inside, with_draw_value.value),
                     expected_pin_hash |-> AuthDefault,
                     keystroke_register |-> <<>>], <<>>)
    ELSE Returned([self EXCEPT !.keystroke_register = Append(@, key)], <<>>)

withdraw(self, key) ==
    IF key = "Enter"
    THEN LET with_draw_value == keys_into_u64(self.keystroke_register)
         IN  IF overflow_checks /\ with_draw_value.overflowed THEN Panic(self)
             ELSE Returned(
                    [cash_inside |->
                        IF u64_ge(self.cash_inside, with_draw_value.value)
                        THEN u64_sub(self.cash_inside, with_draw_value.value)
                        ELSE self.cash_inside,
                     expected_pin_hash |-> AuthDefault,
                     keystroke_register |-> <<>>], <<>>)
    ELSE Returned([self EXCEPT !.keystroke_register = Append(@, key)], <<>>)

\* mutant: keys pressed before a swipe are collected
key_press_collects(self, key) ==
    CASE self.expected_pin_hash.tag = "Authenticating" -> pin_check(self, key)
      [] self.expected_pin_hash.tag = "Authenticated" -> withdraw(self, key)
      [] OTHER -> Returned([self EXCEPT !.keystroke_register = Append(@, key)], <<>>)

key_press(self, key) ==
    CASE self.expected_pin_hash.tag = "Authenticating" -> pin_check(self, key)
      [] self.expected_pin_hash.tag = "Authenticated" -> withdraw(self, key)
      [] OTHER -> Returned(self, <<WrongState>>)

(***************************************************************************)
(* impl StateMachine for Atm: next_state copies the starting state and     *)
(* applies the transition to the copy.                                     *)
(***************************************************************************)
next_state(start, tr) ==
    LET copy == [cash_inside |-> start.cash_inside,
                 expected_pin_hash |-> start.expected_pin_hash,
                 keystroke_register |->
                     [i \in 1..Len(start.keystroke_register) |-> start.keystroke_register[i]]]
    IN  CASE tr.kind = "SwipeCard" -> swip_card(copy, tr.value)
          [] tr.kind = "PressKey" -> key_press(copy, tr.value)

(***************************************************************************)
(* Inputs.                                                                 *)
(***************************************************************************)
\* pins whose digests cards carry
Pins == {<<"One", "Two">>}

\* digests a swiped card can carry: those of Pins, and 1234 as in the tests
Digests == {hash(p) : p \in Pins} \cup {1234}

Reserves == {u64(0), u64(10), u64(14)}

SeqsUpTo(S, n) == UNION {[1..m -> S] : m \in 0..n}

LongRegisters == {[i \in 1..n |-> k] : n \in (MaxDigits - LongSpan)..MaxDigits, k \in Digits}

RegisterInputs == SeqsUpTo(Key, MaxInitLen) \cup LongRegisters

AuthInputs == {Waiting, Authenticated} \cup {Authenticating(d) : d \in Digests}

(***************************************************************************)
(* History of the session, as enum Auth documents it: `card` is the digest *)
(* of the card swiped while the machine was Waiting, if any ("The user has *)
(* swiped their card, providing the enclosed PIN hash"), `pin_ok` that Enter *)
(* was then pressed on a register hashing to that digest ("The user has    *)
(* authenticated").  It is forgotten when the phase is Waiting again.      *)
(***************************************************************************)
NoSession == [card |-> <<>>, pin_ok |-> FALSE]

SessionAfter(s, before, tr, after) ==
    IF after.expected_pin_hash = Waiting THEN NoSession
    ELSE IF before.expected_pin_hash = Waiting /\ tr.kind = "SwipeCard"
         THEN [card |-> <<tr.value>>, pin_ok |-> FALSE]
    ELSE IF /\ before.expected_pin_hash.tag = "Authenticating"
            /\ tr = PressKeyAction("Enter")
            /\ s.card = <<before.expected_pin_hash.hash>>
            /\ s.card = <<hash(before.keystroke_register)>>
         THEN [s EXCEPT !.pin_ok = TRUE]
    ELSE s

(***************************************************************************)
(* The driver: one call of next_state per step.                            *)
(***************************************************************************)
Call(tr) ==
    LET r == next_state(atm, tr)
    IN  /\ ~panicked
        /\ session' = SessionAfter(session, atm, tr, IF r.panicked THEN atm ELSE r.atm)
        /\ starting_state' = atm
        /\ t' = tr
        /\ atm' = IF r.panicked THEN atm ELSE r.atm
        /\ stdout' = r.stdout
        /\ panicked' = r.panicked
        /\ UNCHANGED overflow_checks

SwipeCard(h) == Call(SwipeCardAction(h))

PressKey(k) ==
    /\ (k \in Digits /\ atm.expected_pin_hash # Waiting)
          => Len(atm.keystroke_register) < MaxRegister
    /\ Call(PressKeyAction(k))

Next ==
    \/ \E h \in Digests : SwipeCard(h)
    \/ \E k \in Key : PressKey(k)

InitWith(a) ==
    /\ atm = a
    /\ starting_state = a
    /\ t = NoAction
    /\ stdout = <<>>
    /\ panicked = FALSE
    /\ overflow_checks \in BOOLEAN
    /\ session = NoSession

\* a fresh machine: some cash, no session, nothing typed
Init ==
    \E c \in Reserves :
        InitWith([cash_inside |-> c, expected_pin_hash |-> Waiting, keystroke_register |-> <<>>])

\* any snapshot a caller can construct
InitAny ==
    \E c \in Reserves, a \in AuthInputs, r \in RegisterInputs :
        InitWith([cash_inside |-> c, expected_pin_hash |-> a, keystroke_register |-> r])

Spec == Init /\ [][Next]_vars

SpecAny == InitAny /\ [][Next]_vars

(***************************************************************************)
(* Reading a u64 as a number, for the values that fit the checker's        *)
(* integers.                                                               *)
(***************************************************************************)
Fits(x) == x[3] = 0 /\ x[4] = 0 /\ x[2] < 16384

Value(x) == x[1] + LimbBase * x[2]

\* the last call was PressKey(Enter) on a snapshot in phase Authenticated
WithdrawAttempted ==
    /\ t = PressKeyAction("Enter")
    /\ starting_state.expected_pin_hash = Authenticated

(***************************************************************************)
(* C1: PressKey(Enter) in phase Authenticated, with reserve R and a        *)
(* register decoding to amount A, returns reserve R - A when A <= R and    *)
(* reserve R when A > R; either way the phase is Waiting and the register  *)
(* empty.  (A register whose decoding leaves the u64 range decodes to no   *)
(* amount; see C9.)                                                        *)
(***************************************************************************)
C1_Withdraw ==
    (WithdrawAttempted /\ ~keys_into_u64(starting_state.keystroke_register).overflowed) =>
        LET R == starting_state.cash_inside
            A == keys_into_u64(starting_state.keystroke_register).value
        IN  /\ ~panicked
            /\ atm.cash_inside =
                  IF Fits(A) /\ Value(A) <= Value(R) THEN u64(Value(R) - Value(A)) ELSE R
            /\ Value(atm.cash_inside) >= 0
            /\ atm.expected_pin_hash = Waiting
            /\ atm.keystroke_register = <<>>

\* a withdrawal that succeeded with a positive amount
C1_Witness ==
    /\ WithdrawAttempted
    /\ ~panicked
    /\ Value(atm.cash_inside) < Value(starting_state.cash_inside)

\* a withdrawal refused for lack of cash
C1_WitnessRefused ==
    /\ WithdrawAttempted
    /\ ~panicked
    /\ starting_state.keystroke_register = <<"One", "Four">>
    /\ starting_state.cash_inside = u64(10)
    /\ atm.cash_inside = u64(10)

(***************************************************************************)
(* C2: from a fresh machine, the cash reserve changes only in a            *)
(* PressKey(Enter) step taken in phase Authenticated, and by then the      *)
(* session has seen a card accepted with digest d and Enter pressed in     *)
(* Authenticating(d) on a register hashing to d.                           *)
(***************************************************************************)
C2_AuthBeforeWithdraw ==
    [][atm'.cash_inside # atm.cash_inside =>
          /\ t' = PressKeyAction("Enter")
          /\ atm.expected_pin_hash = Authenticated
          /\ \E d \in Digests : session.card = <<d>>
          /\ session.pin_ok]_vars

C2_Witness ==
    /\ WithdrawAttempted
    /\ atm.cash_inside # starting_state.cash_inside

\* the last call was SwipeCard
Swiped == t.kind = "SwipeCard"

\* the last call was PressKey
Pressed == t.kind = "PressKey"

\* the last call was PressKey(Enter) on a snapshot in phase Authenticating
PinEntered ==
    /\ t = PressKeyAction("Enter")
    /\ starting_state.expected_pin_hash.tag = "Authenticating"

(***************************************************************************)
(* C3: PressKey(Enter) in phase Authenticating(e) with register K returns  *)
(* phase Authenticated when hash(K) = e and phase Waiting otherwise; the   *)
(* register is empty and the cash reserve unchanged in both cases.         *)
(***************************************************************************)
C3_PinCheck ==
    PinEntered =>
        /\ ~panicked
        /\ atm.expected_pin_hash =
              IF hash(starting_state.keystroke_register) = starting_state.expected_pin_hash.hash
              THEN Authenticated ELSE Waiting
        /\ atm.keystroke_register = <<>>
        /\ atm.cash_inside = starting_state.cash_inside

\* a wrong pin, typed and refused
C3_Witness ==
    /\ PinEntered
    /\ starting_state.keystroke_register # <<>>
    /\ hash(starting_state.keystroke_register) # starting_state.expected_pin_hash.hash
    /\ atm.expected_pin_hash = Waiting

\* the right pin, typed and accepted
C3_WitnessAccepted ==
    /\ PinEntered
    /\ starting_state.keystroke_register # <<>>
    /\ atm.expected_pin_hash = Authenticated

(***************************************************************************)
(* C4: SwipeCard(d) on a snapshot whose phase is not Waiting returns the   *)
(* snapshot unchanged: same phase and expected digest, same register,      *)
(* same reserve.                                                           *)
(***************************************************************************)
C4_SwipeRejected ==
    (Swiped /\ starting_state.expected_pin_hash # Waiting) =>
        /\ ~panicked
        /\ atm = starting_state

\* a card with another digest swiped while a pin is being typed
C4_Witness ==
    /\ Swiped
    /\ starting_state.expected_pin_hash.tag = "Authenticating"
    /\ starting_state.expected_pin_hash.hash # t.value
    /\ starting_state.keystroke_register # <<>>

C6_KeyIgnoredWhenWaiting ==
    (Pressed /\ starting_state.expected_pin_hash = Waiting) =>
        /\ ~panicked
        /\ atm = starting_state

\* a digit pressed before any card was swiped
C6_Witness ==
    /\ Pressed
    /\ t.value \in Digits
    /\ starting_state.expected_pin_hash = Waiting

(***************************************************************************)
(* C7: PressKey(k) for a digit key k, in phase Authenticating(e) or        *)
(* Authenticated, returns the register with k appended at the end and the  *)
(* phase (with e) and the reserve unchanged.                               *)
(***************************************************************************)
C7_DigitAppended ==
    (Pressed /\ t.value \in Digits /\ starting_state.expected_pin_hash # Waiting) =>
        /\ ~panicked
        /\ atm.keystroke_register = starting_state.keystroke_register \o <<t.value>>
        /\ atm.expected_pin_hash = starting_state.expected_pin_hash
        /\ atm.cash_inside = starting_state.cash_inside

\* a digit typed after a different one
C7_Witness ==
    /\ Pressed
    /\ t.value \in Digits
    /\ starting_state.expected_pin_hash # Waiting
    /\ Len(starting_state.keystroke_register) > 0
    /\ starting_state.keystroke_register[1] # t.value
    /\ Len(atm.keystroke_register) = Len(starting_state.keystroke_register) + 1

(***************************************************************************)
(* The decimal number a sequence of digit keys spells, first key most      *)
(* significant.                                                            *)
(***************************************************************************)
DigitOf(k) ==
    CASE k = "One" -> 1
      [] k = "Two" -> 2
      [] k = "Three" -> 3
      [] k = "Four" -> 4

RECURSIVE Decimal(_)
Decimal(keys) ==
    IF keys = <<>> THEN 0
    ELSE 10 * Decimal(SubSeq(keys, 1, Len(keys) - 1)) + DigitOf(keys[Len(keys)])

\* a register of digit keys as the keypad can have produced it
TypedDigits(keys) ==
    /\ Len(keys) <= MaxRegister
    /\ \A i \in 1..Len(keys) : keys[i] \in Digits

(***************************************************************************)
(* C8: the amount decoded from a register of digit keys is the decimal     *)
(* number they spell, first key most significant ([One, Four] is 14), and  *)
(* 0 for the empty register; the withdrawal uses that amount.              *)
(***************************************************************************)
C8_BigEndianDecimal ==
    (WithdrawAttempted /\ TypedDigits(starting_state.keystroke_register)) =>
        LET A == Decimal(starting_state.keystroke_register)
            R == Value(starting_state.cash_inside)
        IN  /\ keys_into_u64(starting_state.keystroke_register).value = u64(A)
            /\ atm.cash_inside = u64(IF A <= R THEN R - A ELSE R)

\* [One, Four] withdrawn from a reserve of 14
C8_Witness ==
    /\ WithdrawAttempted
    /\ starting_state.keystroke_register = <<"One", "Four">>
    /\ starting_state.cash_inside = u64(14)
    /\ atm.cash_inside = u64(0)

(***************************************************************************)
(* C9: next_state returns a state for every state and action; Enter in     *)
(* phase Authenticated returns for a register of any number of digits,     *)
(* the decoded amount and its positional multiplier staying within u64.    *)
(***************************************************************************)
C9_Total ==
    /\ ~panicked
    /\ WithdrawAttempted => ~keys_into_u64(starting_state.keystroke_register).overflowed

(***************************************************************************)
(* End-to-end scenarios: pressing the keys of a sequence one after the     *)
(* other, from key i on.                                                   *)
(***************************************************************************)
RECURSIVE press_all(_, _, _)
press_all(s, keys, i) ==
    IF i > Len(keys) THEN s
    ELSE press_all(next_state(s, PressKeyAction(keys[i])).atm, keys, i + 1)

ScenarioKeys == SeqsUpTo(Digits, MaxScenario)

(***************************************************************************)
(* C10: from (R, Waiting, empty register), for every digit sequence D,     *)
(* SwipeCard(hash(D)), the keys of D and Enter reach (R, Authenticated,    *)
(* empty register); then, for every digit sequence M of amount A <= R,     *)
(* the keys of M and Enter reach (R - A, Waiting, empty register).  The    *)
(* register hashed at Enter is D itself, without the Enter key.            *)
(***************************************************************************)
C10_EndToEnd ==
    (atm.expected_pin_hash = Waiting /\ atm.keystroke_register = <<>>) =>
        LET R == Value(atm.cash_inside)
            authenticated == [cash_inside |-> atm.cash_inside,
                              expected_pin_hash |-> Authenticated,
                              keystroke_register |-> <<>>]
        IN  /\ \A D \in ScenarioKeys :
                  LET swiped == next_state(atm, SwipeCardAction(hash(D))).atm
                      typed == press_all(swiped, D, 1)
                      entered == next_state(typed, PressKeyAction("Enter"))
                  IN  /\ typed = [cash_inside |-> atm.cash_inside,
                                  expected_pin_hash |-> Authenticating(hash(D)),
                                  keystroke_register |-> D]
                      /\ ~entered.panicked
                      /\ entered.atm = authenticated
            /\ \A M \in ScenarioKeys :
                  LET keyed == press_all(authenticated, M, 1)
                      done == next_state(keyed, PressKeyAction("Enter"))
                  IN  Decimal(M) <= R =>
                        /\ ~done.panicked
                        /\ done.atm = [cash_inside |-> u64(R - Decimal(M)),
                                       expected_pin_hash |-> Waiting,
                                       keystroke_register |-> <<>>]

\* a fresh machine went through card, pin, Enter, amount 14, Enter
C10_Witness ==
    /\ WithdrawAttempted
    /\ starting_state.keystroke_register = <<"One", "Four">>
    /\ Value(starting_state.cash_inside) = 14
    /\ atm = [cash_inside |-> u64(0), expected_pin_hash |-> Waiting, keystroke_register |-> <<>>]

\* the last call was a rejected out-of-order action
Rejected ==
    \/ Swiped /\ starting_state.expected_pin_hash # Waiting
    \/ Pressed /\ starting_state.expected_pin_hash = Waiting

(***************************************************************************)
(* C11: in every state reachable from a fresh machine, the register is     *)
(* empty whenever the phase is Waiting.                                    *)
(***************************************************************************)
C11_WaitingRegisterEmpty ==
    atm.expected_pin_hash = Waiting => atm.keystroke_register = <<>>

\* a session with typed keys fell back to Waiting on a wrong pin
C11_Witness ==
    /\ PinEntered
    /\ Len(starting_state.keystroke_register) > 1
    /\ atm.expected_pin_hash = Waiting
    /\ atm.keystroke_register = <<>>

(***************************************************************************)
(* C12: for every state s and action a, the cash reserve of                *)
(* next_state(s, a) is at most the cash reserve of s.                      *)
(***************************************************************************)
C12_ReserveNonIncreasing ==
    /\ Fits(atm.cash_inside)
    /\ Value(atm.cash_inside) <= Value(starting_state.cash_inside)

\* a withdrawal that took part of the reserve
C12_Witness ==
    /\ WithdrawAttempted
    /\ Value(atm.cash_inside) > 0
    /\ Value(atm.cash_inside) < Value(starting_state.cash_inside)

(***************************************************************************)
(* C13 as stated: the register is empty after every pin check, every       *)
(* withdrawal attempt and every rejected out-of-order action, also for     *)
(* input states with a non-empty register.                                 *)
(***************************************************************************)
C13_RegisterAlwaysCleared ==
    (~panicked /\ (PinEntered \/ WithdrawAttempted \/ Rejected)) =>
        atm.keystroke_register = <<>>

(***************************************************************************)
(* C13 amended: the register is empty in the state returned by every pin   *)
(* check and every withdrawal attempt; a rejected out-of-order action      *)
(* returns the register as it was, empty or not.                           *)
(***************************************************************************)
C13_RegisterClearedOnEnter ==
    /\ (~panicked /\ (PinEntered \/ WithdrawAttempted)) => atm.keystroke_register = <<>>
    /\ Rejected => (~panicked /\ atm.keystroke_register = starting_state.keystroke_register)

\* a second swipe with keys already typed
C13_Witness ==
    /\ Rejected
    /\ Swiped
    /\ starting_state.keystroke_register # <<>>
    /\ atm.keystroke_register # <<>>

\* a withdrawal attempt with keys typed
C13_WitnessCleared ==
    /\ WithdrawAttempted
    /\ ~panicked
    /\ starting_state.keystroke_register # <<>>
    /\ atm.keystroke_register = <<>>

\* every key of the sequence is a digit key
OnlyDigits(keys) == \A i \in 1..Len(keys) : keys[i] \in Digits

(***************************************************************************)
(* C14: in every state reachable from a fresh machine the register holds   *)
(* digit keys only, never Enter, so the amount decoded at a withdrawal     *)
(* never takes in the numeric value of Enter.                              *)
(***************************************************************************)
C14_RegisterHoldsDigits ==
    /\ OnlyDigits(atm.keystroke_register)
    /\ WithdrawAttempted =>
          /\ OnlyDigits(starting_state.keystroke_register)
          /\ keys_into_u64(starting_state.keystroke_register).value
                = u64(Decimal(starting_state.keystroke_register))

\* an amount of several digits was decoded after Enter had been pressed for the pin
C14_Witness ==
    /\ WithdrawAttempted
    /\ Len(starting_state.keystroke_register) = MaxRegister
    /\ atm.keystroke_register = <<>>

(***************************************************************************)
(* C15: in every step taken from a state reachable from a fresh machine,   *)
(* if the resulting phase differs from the starting phase, the resulting   *)
(* register is empty.                                                      *)
(***************************************************************************)
C15_RegisterEmptyAcrossPhases ==
    atm.expected_pin_hash # starting_state.expected_pin_hash =>
        atm.keystroke_register = <<>>

\* a typed pin was accepted: Authenticating to Authenticated
C15_Witness ==
    /\ PinEntered
    /\ starting_state.keystroke_register # <<>>
    /\ atm.expected_pin_hash = Authenticated
    /\ atm.keystroke_register = <<>>

(***************************************************************************)
(* C16: a withdrawal attempt always ends the session, and a step that      *)
(* changes the cash reserve ends a session in which, since the phase was   *)
(* last Waiting (so since any earlier change of the reserve), a card was   *)
(* accepted and then a pin check succeeded.                                *)
(***************************************************************************)
C16_OneWithdrawalPerSession ==
    [][/\ (t' = PressKeyAction("Enter") /\ atm.expected_pin_hash = Authenticated /\ ~panicked')
            => (atm'.expected_pin_hash = Waiting /\ session' = NoSession)
       /\ atm'.cash_inside # atm.cash_inside
            => /\ atm'.expected_pin_hash = Waiting
               /\ session' = NoSession
               /\ session.card # <<>>
               /\ session.pin_ok]_vars

\* a second withdrawal: the reserve had already been reduced to 9
C16_Witness ==
    /\ WithdrawAttempted
    /\ Value(starting_state.cash_inside) = 9
    /\ Value(atm.cash_inside) = 8
    /\ session = NoSession

(***************************************************************************)
(* C17: next_state emits no output for any state and action, the rejected  *)
(* ones included (SwipeCard when the phase is not Waiting, PressKey when   *)
(* it is Waiting).                                                         *)
(***************************************************************************)
C17_NoOutput == stdout = <<>>

(***************************************************************************)
(* C19: a single action changes the phase only from Waiting to             *)
(* Authenticating(d) by SwipeCard(d), from Authenticating(d) to            *)
(* Authenticated or Waiting by Enter, and from Authenticated to Waiting by *)
(* Enter.                                                                  *)
(***************************************************************************)
C19_PhaseEdges ==
    atm.expected_pin_hash # starting_state.expected_pin_hash =>
        \/ /\ starting_state.expected_pin_hash = Waiting
           /\ Swiped
           /\ atm.expected_pin_hash = Authenticating(t.value)
        \/ /\ starting_state.expected_pin_hash.tag = "Authenticating"
           /\ t = PressKeyAction("Enter")
           /\ atm.expected_pin_hash \in {Authenticated, Waiting}
        \/ /\ starting_state.expected_pin_hash = Authenticated
           /\ t = PressKeyAction("Enter")
           /\ atm.expected_pin_hash = Waiting

\* a card carrying another digest was swiped mid-session and changed nothing
C19_Witness ==
    /\ Swiped
    /\ starting_state.expected_pin_hash.tag = "Authenticating"
    /\ t.value # starting_state.expected_pin_hash.hash
    /\ atm.expected_pin_hash = starting_state.expected_pin_hash

\* the edge from Authenticated back to Waiting
C19_WitnessEdge ==
    /\ WithdrawAttempted
    /\ atm.expected_pin_hash = Waiting

(***************************************************************************)
(* Pressing Enter once and twice on a snapshot.                            *)
(***************************************************************************)
EnterOnce(s) == next_state(s, PressKeyAction("Enter"))

EnterTwice(s) == next_state(EnterOnce(s).atm, PressKeyAction("Enter"))

\* the call returned a snapshot in phase Waiting with an empty register
Idle(r) ==
    /\ ~r.panicked
    /\ r.atm.expected_pin_hash = Waiting
    /\ r.atm.keystroke_register = <<>>

\* a register of digit keys whose decoding stays within u64
Decodable(keys) == OnlyDigits(keys) /\ ~keys_into_u64(keys).overflowed

====
